---------------------------- MODULE Spec2Model ----------------------------
(***************************************************************************)
(* A model of src/telegramForwarder.py: the TelegramForwarder agent (its   *)
(* connect/authorize step, the display-name cache, the message callback    *)
(* with its token pattern, the signal-triggered shutdown) and the          *)
(* ConfigManager's four file operations.                                   *)
(*                                                                         *)
(* The Telegram client library is an external collaborator.  Its calls are *)
(* modelled by their outcomes: a call returns or raises, and a request     *)
(* made on a disconnected client raises.  Every coroutine is cut at its    *)
(* awaits: one action runs a task from the await it is suspended on to the *)
(* next one, which is what the single asyncio event loop does.             *)
(***************************************************************************)
EXTENDS Integers, Sequences, FiniteSets, TLC

(***************************************************************************)
(* Bounds of the model.                                                    *)
(***************************************************************************)
\* segments a message text is built from
MaxSegs == 3
\* inbound messages dispatched in one run of the agent
MaxMsgs == 2
\* disconnect tasks the signal handler has created and that have not run
MaxSignals == 1

(***************************************************************************)
(* Message texts.  A text is a sequence of one-character strings.  "a" and *)
(* "b" stand for the characters of [a-zA-Z0-9]; "_" stands for a character *)
(* that is a word character (\w) but not in [a-zA-Z0-9] (the underscore, a *)
(* non-ASCII letter); " " stands for a character that is not a word        *)
(* character.  None is a message without text (event.message.text is       *)
(* None).                                                                  *)
(***************************************************************************)
TokenMin == 43
TokenMax == 44

None == <<"None">>

ClassChars == {"a", "b"}
Chars == ClassChars \cup {"_", " "}

\* the lengths of the runs texts are built from: around the two token lengths
SegLens == {1, TokenMin - 1, TokenMin, TokenMax}

\* runs of one class character of each of those lengths, a token of the
\* other class character, and the two characters that are not of the class
Segments ==
    ({"a"} \X SegLens) \cup {<<"b", TokenMin>>, <<"_", 1>>, <<" ", 1>>}

Rep(c, n) == [i \in 1..n |-> c]

RECURSIVE Expand(_)
Expand(segs) ==
    IF segs = <<>> THEN <<>>
    ELSE Rep(Head(segs)[1], Head(segs)[2]) \o Expand(Tail(segs))

SegSeqs == UNION {[1..k -> Segments] : k \in 0..MaxSegs}

AllTexts == {Expand(s) : s \in SegSeqs} \cup {None}

(***************************************************************************)
(* re.search(r'\b[a-zA-Z0-9]{43,44}\b', text), as the regex engine runs    *)
(* it: start positions are tried left to right; at a start position \b     *)
(* must hold, the quantifier is greedy (44 characters are tried before     *)
(* 43), and \b must hold after the characters taken.                       *)
(***************************************************************************)
IsClassChar(c) == c \in ClassChars

\* \w of a str pattern
IsWordChar(c) == IsClassChar(c) \/ c = "_"

WordAt(t, i) == i \in 1..Len(t) /\ IsWordChar(t[i])

\* the pattern written without \b
NoBoundary(t, p) == TRUE

\* \b at the gap before position p (p = Len(t) + 1 is the end of the text)
Boundary(t, p) == WordAt(t, p - 1) # WordAt(t, p)

ClassRun(t, i, n) ==
    /\ i + n - 1 <= Len(t)
    /\ \A j \in i..(i + n - 1) : IsClassChar(t[j])

\* the quantifier written {43,45}
MatchLensWide(t, i) ==
    {n \in {TokenMin, TokenMax + 1} : ClassRun(t, i, n) /\ Boundary(t, i + n)}

\* the lengths the quantifier {43,44} can take at i with \b after them
MatchLens(t, i) ==
    {n \in TokenMin..TokenMax : ClassRun(t, i, n) /\ Boundary(t, i + n)}

\* the match at start position i: 0 for none, else the greedy length
MatchAt(t, i) ==
    IF ~Boundary(t, i) THEN 0
    ELSE LET lens == MatchLens(t, i)
         IN  IF lens = {} THEN 0
             ELSE CHOOSE n \in lens : \A m \in lens : m <= n

\* the start positions at which the pattern matches
MatchStarts(t) == {i \in 1..Len(t) : MatchAt(t, i) > 0}

\* the last match taken instead of the first
ReSearchLast(t) ==
    LET starts == MatchStarts(t)
    IN  IF starts = {} THEN None
        ELSE LET i == CHOOSE s \in starts : \A r \in starts : s >= r
             IN  <<"match", i, MatchAt(t, i)>>

\* the match object of re.search: the match at the leftmost start, or None
ReSearch(t) ==
    LET starts == MatchStarts(t)
    IN  IF starts = {} THEN None
        ELSE LET i == CHOOSE s \in starts : \A r \in starts : s <= r
             IN  <<"match", i, MatchAt(t, i)>>

\* match.group()
Group(t, m) == SubSeq(t, m[2], m[2] + m[3] - 1)

\* `if event.message.text:` : None and the empty string are falsy
Truthy(t) == t # None /\ t # <<>>


(***************************************************************************)
(* Python values and JSON.  A Python value carries its type: None, a str,  *)
(* an int, a list.  A JSON value is what json.dump writes: null, a string, *)
(* a number as its decimal digits, an array.  json.load reads it back.     *)
(***************************************************************************)
PyStr(s) == <<"str", s>>
PyInt(n) == <<"int", n>>
PyList(xs) == <<"list", xs>>

\* a list of ints, from the integers
PyIntList(ns) == PyList([i \in 1..Len(ns) |-> PyInt(ns[i])])

Digit == <<"0", "1", "2", "3", "4", "5", "6", "7", "8", "9">>

DigitVal(c) == (CHOOSE d \in 1..10 : Digit[d] = c) - 1

RECURSIVE NatToDigits(_)
NatToDigits(n) ==
    IF n < 10 THEN <<Digit[n + 1]>>
    ELSE NatToDigits(n \div 10) \o <<Digit[(n % 10) + 1]>>

IntToDigits(n) == IF n < 0 THEN <<"-">> \o NatToDigits(0 - n) ELSE NatToDigits(n)

RECURSIVE DigitsToNat(_)
DigitsToNat(ds) ==
    IF ds = <<>> THEN 0
    ELSE 10 * DigitsToNat(SubSeq(ds, 1, Len(ds) - 1)) + DigitVal(ds[Len(ds)])

DigitsToInt(ds) ==
    IF Head(ds) = "-" THEN 0 - DigitsToNat(Tail(ds)) ELSE DigitsToNat(ds)

\* json.dump of one value
RECURSIVE JsonDump(_)
JsonDump(v) ==
    CASE v[1] = "None" -> <<"null">>
      [] v[1] = "str"  -> <<"string", v[2]>>
      [] v[1] = "int"  -> <<"number", IntToDigits(v[2])>>
      [] v[1] = "list" -> <<"array", [i \in 1..Len(v[2]) |-> JsonDump(v[2][i])]>>

\* json.load of one value
RECURSIVE JsonLoad(_)
JsonLoad(j) ==
    CASE j[1] = "null"   -> None
      [] j[1] = "string" -> PyStr(j[2])
      [] j[1] = "number" -> PyInt(DigitsToInt(j[2]))
      [] j[1] = "array"  -> PyList([i \in 1..Len(j[2]) |-> JsonLoad(j[2][i])])

\* a dict with string keys, and the JSON object written for it
DumpDict(d) == [k \in DOMAIN d |-> JsonDump(d[k])]
LoadDict(o) == [k \in DOMAIN o |-> JsonLoad(o[k])]

\* dict.get(key): None when the key is missing
Get(d, k) == IF k \in DOMAIN d THEN d[k] ELSE None

\* d with d[k] = v
Put(d, k, v) == [x \in DOMAIN d \cup {k} |-> IF x = k THEN v ELSE d[x]]

\* `x is None` in the place of `not x`
FalsyNone(v) == v = None

\* `not x` of Python
Falsy(v) ==
    \/ v = None
    \/ v[1] = "int" /\ v[2] = 0
    \/ v[1] = "str" /\ v[2] = ""
    \/ v[1] = "list" /\ v[2] = <<>>

(***************************************************************************)
(* The config file: absent, an existing file json.load cannot turn into a  *)
(* dict (unreadable, empty, truncated, not an object), or a JSON object.   *)
(***************************************************************************)
Absent == <<"absent">>
Unreadable == <<"unreadable">>
Object(o) == <<"object", o>>

Exists(file) == file # Absent
IsObject(file) == file[1] = "object"

\* how a write of the file ends: open(.., "w") raises and the file is as it
\* was; json.dump raises after open truncated the file; the write succeeds
WriteOutcomes == {"ok", "open_fails", "write_fails"}

\* the file after `with open(config_file, "w") as file: json.dump(config, file)`
Written(file, config, outcome) ==
    CASE outcome = "ok"          -> Object(DumpDict(config))
      [] outcome = "open_fails"  -> file
      [] outcome = "write_fails" -> Unreadable

\* load_credentials without its try: the read error leaves the call
load_credentials_uncaught(file) ==
    IF ~Exists(file)
    THEN [ret |-> <<None, None, None>>, err |-> FALSE, raised |-> FALSE]
    ELSE IF ~IsObject(file)
    THEN [ret |-> None, err |-> FALSE, raised |-> TRUE]
    ELSE LET config == LoadDict(file[2])
         IN  [ret |-> <<Get(config, "api_id"), Get(config, "api_hash"),
                        Get(config, "phone_number")>>,
              err |-> FALSE, raised |-> FALSE]

\* ConfigManager.load_credentials: the triple returned, whether an error was
\* logged, whether an exception left the call
load_credentials(file) ==
    IF ~Exists(file)
    THEN [ret |-> <<None, None, None>>, err |-> FALSE, raised |-> FALSE]
    ELSE IF ~IsObject(file)
    THEN [ret |-> <<None, None, None>>, err |-> TRUE, raised |-> FALSE]
    ELSE LET config == LoadDict(file[2])
         IN  [ret |-> <<Get(config, "api_id"), Get(config, "api_hash"),
                        Get(config, "phone_number")>>,
              err |-> FALSE, raised |-> FALSE]

\* save_credentials that reads the file first and keeps what it holds, as
\* save_chat_config does
save_credentials_merge(file, mode, os, api_id, api_hash, phone_number, outcome) ==
    IF Exists(file) /\ ~IsObject(file)
    THEN [file |-> file, mode |-> mode, ret |-> None, err |-> TRUE,
          raised |-> FALSE]
    ELSE LET read == IF Exists(file) THEN LoadDict(file[2]) ELSE <<>>
             config == Put(Put(Put(read, "api_id", api_id),
                               "api_hash", api_hash),
                           "phone_number", phone_number)
             wrote == IF outcome = "chmod_fails" THEN "ok" ELSE outcome
             after == Written(file, config, wrote)
         IN  [file |-> after,
              mode |-> IF outcome = "ok" /\ os # "nt" THEN "0600"
                       ELSE IF file = Absent /\ after # Absent THEN "default"
                       ELSE mode,
              ret  |-> None,
              err  |-> outcome # "ok",
              raised |-> FALSE]

\* ConfigManager.save_credentials: the file and its mode afterwards, and
\* whether an error was logged.  outcome is a write outcome or "chmod_fails"
\* (the write succeeded and os.chmod raised).
save_credentials(file, mode, os, api_id, api_hash, phone_number, outcome) ==
    LET config == [k \in {"api_id", "api_hash", "phone_number"} |->
                     CASE k = "api_id" -> api_id
                       [] k = "api_hash" -> api_hash
                       [] k = "phone_number" -> phone_number]
        wrote == IF outcome = "chmod_fails" THEN "ok" ELSE outcome
        after == Written(file, config, wrote)
    IN  [file |-> after,
         mode |-> IF outcome = "ok" /\ os # "nt" THEN "0600"
                  ELSE IF file = Absent /\ after # Absent THEN "default"
                  ELSE mode,
         ret  |-> None,
         err  |-> outcome # "ok",
         raised |-> FALSE]

\* save_chat_config that starts from an empty config whatever the file holds
save_chat_config_fresh(file, mode, source_chat_ids, destination_chat_id, now, outcome) ==
    LET config == Put(Put(Put(<<>>, "source_chat_ids", source_chat_ids),
                          "destination_chat_id", destination_chat_id),
                      "last_updated", now)
        after == Written(file, config, outcome)
    IN  [file |-> after,
         mode |-> IF file = Absent /\ after # Absent THEN "default" ELSE mode,
         ret  |-> None,
         err  |-> outcome # "ok",
         raised |-> FALSE]

\* ConfigManager.save_chat_config
save_chat_config(file, mode, source_chat_ids, destination_chat_id, now, outcome) ==
    IF Exists(file) /\ ~IsObject(file)
    THEN [file |-> file, mode |-> mode, ret |-> None, err |-> TRUE,
          raised |-> FALSE]
    ELSE LET read == IF Exists(file) THEN LoadDict(file[2]) ELSE <<>>
             config == Put(Put(Put(read, "source_chat_ids", source_chat_ids),
                               "destination_chat_id", destination_chat_id),
                           "last_updated", now)
             after == Written(file, config, outcome)
         IN  [file |-> after,
              mode |-> IF file = Absent /\ after # Absent THEN "default" ELSE mode,
              ret  |-> None,
              err  |-> outcome # "ok",
              raised |-> FALSE]

\* load_chat_config that reads the destination under the name main() gives it
load_chat_config_channel(file) ==
    IF ~Exists(file) THEN [ret |-> <<None, None>>, err |-> FALSE, raised |-> FALSE]
    ELSE IF ~IsObject(file)
    THEN [ret |-> <<None, None>>, err |-> TRUE, raised |-> FALSE]
    ELSE LET config == LoadDict(file[2])
         IN  [ret |-> <<Get(config, "source_chat_ids"),
                        Get(config, "destination_channel_id")>>,
              err |-> FALSE, raised |-> FALSE]

\* ConfigManager.load_chat_config
load_chat_config(file) ==
    IF ~Exists(file) THEN [ret |-> <<None, None>>, err |-> FALSE, raised |-> FALSE]
    ELSE IF ~IsObject(file)
    THEN [ret |-> <<None, None>>, err |-> TRUE, raised |-> FALSE]
    ELSE LET config == LoadDict(file[2])
         IN  [ret |-> <<Get(config, "source_chat_ids"),
                        Get(config, "destination_chat_id")>>,
              err |-> FALSE, raised |-> FALSE]

(***************************************************************************)
(* The chats of the account, as the client resolves them.  get_entity      *)
(* returns a channel or group, which has a title, or a user, which has     *)
(* none.                                                                   *)
(***************************************************************************)
ChatIds == {1, 2, 3}
UserChats == {3}

Entity(chat) == <<"entity", chat, chat \notin UserChats>>

\* f"Chat {chat_id}"
ChatLabel(chat) == <<"Chat", chat>>

\* `entity.title` read without asking whether the entity has one
NameOfTitle(entity, chat) == <<"title", entity[2]>>

\* `entity.title if hasattr(entity, 'title') else f"Chat {chat_id}"`
NameOf(entity, chat) == IF entity[3] THEN <<"title", entity[2]>> ELSE ChatLabel(chat)

\* the seconds a FloodWaitError carries, and the fixed backoff
FloodSeconds == {7, 30}
Backoff == 5

\* how a call of the client ends
Ok == <<"ok">>
Error == <<"error">>
Flood(s) == <<"flood", s>>
PasswordNeeded == <<"password_needed">>
Raises == {Error} \cup {Flood(s) : s \in FloodSeconds}

Range(f) == {f[x] : x \in DOMAIN f}

VARIABLES
    \* TelegramForwarder
    running,          \* self.running
    connected,        \* client.is_connected()
    authorized,       \* what client.is_user_authorized() answers
    source_entities,  \* self.source_entities: chat id -> entity
    \* the main task
    pc,               \* where main() is
    caller,           \* the operation that called ensure_connected
    ecRet,            \* what ensure_connected returned, until its caller has it
    slept,            \* the seconds of its asyncio.sleep
    ecCalls,          \* the client calls it has made
    ecErr,            \* the exception it caught
    srcIds,           \* setup_message_handlers' source_chat_ids
    destId,           \* setup_message_handlers' destination_chat_id
    nameIdx,          \* the loop of lines 121-125
    source_names,     \* source_names of setup_message_handlers
    dest_name,
    installed,        \* new_message_handler is registered
    listing,          \* the chats list_chats wrote
    \* the callbacks and the event loop
    tasks,            \* one record per inbound message delivered
    sendCalls,        \* the send_message calls made, in order
    lookups,          \* get_entity calls made, per chat id
    discTasks,        \* disconnect tasks created by signal_handler, not yet run
    \* ConfigManager
    file,             \* telegram_config.json
    fileMode,         \* its permissions
    osName,           \* os.name
    cfgOp,            \* the last ConfigManager call: op, args, result
    cfgPrev,          \* the ConfigManager call before it
    choice            \* the menu choice entered

agentVars == <<running, connected, authorized, source_entities, pc, caller,
               ecRet, slept, ecCalls, ecErr, srcIds, destId, nameIdx, source_names,
               dest_name, installed, listing, tasks, sendCalls, lookups,
               discTasks>>
cfgVars == <<file, fileMode, osName, cfgOp, cfgPrev>>
vars == <<agentVars, cfgVars, choice>>

\* the awaits of the main task: only there does the event loop run another task
AwaitPcs == {"await_connect", "await_is_auth", "await_send_code",
             "await_sign_in", "await_sign_in_pw", "await_sleep",
             "await_dialogs", "await_entity", "await_idle", "await_disconnect"}

MainSuspended == pc \in AwaitPcs

NoCall == [op |-> "none", args |-> <<>>, ret |-> <<>>, err |-> FALSE,
           raised |-> FALSE, before |-> Absent]
NoPrev == [op |-> "none", args |-> <<>>, err |-> FALSE, before |-> "absent"]

sigVars == <<running, discTasks>>
ecVars == <<ecRet, slept, ecCalls, ecErr>>
argVars == <<caller, srcIds, destId>>
nameVars == <<nameIdx, source_names, dest_name>>
cbVars == <<tasks, sendCalls>>

(***************************************************************************)
(* TelegramForwarder.signal_handler.  A signal is handled between two      *)
(* bytecodes of whatever runs, so at any point of the main task.           *)
(***************************************************************************)
\* a handler that flips the flag
signal_handler_toggle ==
    /\ running' = ~running
    /\ discTasks' = IF connected THEN discTasks + 1 ELSE discTasks

signal_handler ==
    /\ running' = FALSE
    /\ discTasks' = IF connected THEN discTasks + 1 ELSE discTasks

Signal ==
    /\ pc # "done"
    /\ connected => discTasks < MaxSignals
    /\ signal_handler
    /\ UNCHANGED <<connected, authorized, source_entities, pc, ecVars, argVars,
                   nameVars, installed, listing, cbVars, lookups, cfgVars, choice>>

\* the task asyncio.create_task(self.client.disconnect()) made runs
DisconnectTask ==
    /\ MainSuspended
    /\ discTasks > 0
    /\ discTasks' = discTasks - 1
    /\ connected' = FALSE
    /\ UNCHANGED <<running, authorized, source_entities, pc, ecVars,
                   argVars, nameVars, installed, listing, cbVars, lookups,
                   cfgVars, choice>>

(***************************************************************************)
(* TelegramForwarder.ensure_connected                                      *)
(***************************************************************************)
\* the fixed backoff slept whatever was raised
SleepBackoff(o) == Backoff

\* the two except clauses: the sleep that is awaited before `return False`
SleepFor(o) == IF o[1] = "flood" THEN o[2] ELSE Backoff

Caught(o) ==
    /\ ecErr' = o
    /\ slept' = SleepFor(o)
    /\ pc' = "await_sleep"

\* a request answered by the server needs the connection
Answered(o) == o \in Raises /\ (o[1] = "flood" => connected)

\* connect called without asking is_connected()
EnsureConnectedAlways ==
    /\ pc = "ec_enter"
    /\ pc' = "await_connect"
    /\ ecCalls' = Append(ecCalls, "connect")
    /\ UNCHANGED <<sigVars, connected, authorized, source_entities, ecRet, slept,
                   ecErr, argVars, nameVars, installed, listing, cbVars,
                   lookups, cfgVars, choice>>

\* lines 50-53: connect if not connected, else ask whether authorized
EnsureConnected ==
    /\ pc = "ec_enter"
    /\ IF ~connected
       THEN pc' = "await_connect" /\ ecCalls' = Append(ecCalls, "connect")
       ELSE pc' = "await_is_auth" /\ ecCalls' = Append(ecCalls, "is_user_authorized")
    /\ UNCHANGED <<sigVars, connected, authorized, source_entities, ecRet, slept,
                   ecErr, argVars, nameVars, installed, listing, cbVars,
                   lookups, cfgVars, choice>>

ConnectReturns(o) ==
    /\ pc = "await_connect"
    /\ IF o = Ok
       THEN /\ connected' = TRUE
            /\ pc' = "await_is_auth"
            /\ ecCalls' = Append(ecCalls, "is_user_authorized")
            /\ UNCHANGED <<slept, ecErr>>
       ELSE /\ o \in Raises
            /\ Caught(o)
            /\ UNCHANGED <<connected, ecCalls>>
    /\ UNCHANGED <<sigVars, authorized, source_entities, ecRet, argVars,
                   nameVars, installed, listing, cbVars, lookups, cfgVars, choice>>

\* line 53, and on an authorized client line 64
IsAuthReturns(o) ==
    /\ pc = "await_is_auth"
    /\ IF o = Ok
       THEN /\ connected
            /\ IF authorized
               THEN pc' = "ec_return" /\ ecRet' = "True" /\ UNCHANGED ecCalls
               ELSE /\ pc' = "await_send_code"
                    /\ ecCalls' = Append(ecCalls, "send_code_request")
                    /\ UNCHANGED ecRet
            /\ UNCHANGED <<slept, ecErr>>
       ELSE /\ Answered(o)
            /\ Caught(o)
            /\ UNCHANGED <<ecRet, ecCalls>>
    /\ UNCHANGED <<sigVars, connected, authorized, source_entities, argVars,
                   nameVars, installed, listing, cbVars, lookups, cfgVars, choice>>

\* lines 55-58: the code is read from the console and sign_in is called
SendCodeReturns(o) ==
    /\ pc = "await_send_code"
    /\ IF o = Ok
       THEN /\ connected
            /\ pc' = "await_sign_in"
            /\ ecCalls' = Append(ecCalls, "sign_in_code")
            /\ UNCHANGED <<slept, ecErr>>
       ELSE /\ Answered(o)
            /\ Caught(o)
            /\ UNCHANGED ecCalls
    /\ UNCHANGED <<sigVars, connected, authorized, source_entities, ecRet,
                   argVars, nameVars, installed, listing, cbVars, lookups,
                   cfgVars, choice>>

\* lines 58-64: signed in, or SessionPasswordNeededError and the password
\* sign_in, or another error
SignInReturns(o) ==
    /\ pc = "await_sign_in"
    /\ CASE o = Ok ->
              /\ connected
              /\ authorized' = TRUE
              /\ pc' = "ec_return"
              /\ ecRet' = "True"
              /\ UNCHANGED <<slept, ecCalls, ecErr>>
         [] o = PasswordNeeded ->
              /\ connected
              /\ pc' = "await_sign_in_pw"
              /\ ecCalls' = Append(ecCalls, "sign_in_password")
              /\ UNCHANGED <<authorized, ecRet, slept, ecErr>>
         [] OTHER ->
              /\ Answered(o)
              /\ Caught(o)
              /\ UNCHANGED <<authorized, ecRet, ecCalls>>
    /\ UNCHANGED <<sigVars, connected, source_entities, argVars, nameVars,
                   installed, listing, cbVars, lookups, cfgVars, choice>>

\* lines 61-64
SignInPwReturns(o) ==
    /\ pc = "await_sign_in_pw"
    /\ IF o = Ok
       THEN /\ connected
            /\ authorized' = TRUE
            /\ pc' = "ec_return"
            /\ ecRet' = "True"
            /\ UNCHANGED <<slept, ecErr>>
       ELSE /\ Answered(o)
            /\ Caught(o)
            /\ UNCHANGED <<authorized, ecRet>>
    /\ UNCHANGED <<sigVars, connected, source_entities, ecCalls, argVars,
                   nameVars, installed, listing, cbVars, lookups, cfgVars, choice>>

\* lines 68-69 and 73-74: the sleep is over, `return False`
SleepReturns ==
    /\ pc = "await_sleep"
    /\ pc' = "ec_return"
    /\ ecRet' = "False"
    /\ UNCHANGED <<sigVars, connected, authorized, source_entities, slept,
                   ecCalls, ecErr, argVars, nameVars, installed, listing,
                   cbVars, lookups, cfgVars, choice>>

(***************************************************************************)
(* list_chats and setup_message_handlers after ensure_connected returned   *)
(***************************************************************************)
\* the operation goes on whatever ensure_connected returned
AfterEnsureConnectedIgnored ==
    /\ pc = "ec_return"
    /\ IF caller = "list_chats"
       THEN pc' = "await_dialogs" /\ UNCHANGED nameIdx
       ELSE pc' = "names" /\ nameIdx' = 1
    /\ ecRet' = "none"
    /\ slept' = 0
    /\ ecCalls' = <<>>
    /\ ecErr' = None
    /\ UNCHANGED <<sigVars, connected, authorized, source_entities, argVars,
                   source_names, dest_name, installed, listing, cbVars, lookups,
                   cfgVars, choice>>

\* lines 78-85 and 115-120: a failure is logged and the operation returns
AfterEnsureConnected ==
    /\ pc = "ec_return"
    /\ IF ecRet = "True"
       THEN IF caller = "list_chats"
            THEN pc' = "await_dialogs" /\ UNCHANGED nameIdx
            ELSE pc' = "names" /\ nameIdx' = 1
       ELSE pc' = "finally" /\ UNCHANGED nameIdx
    /\ ecRet' = "none"
    /\ slept' = 0
    /\ ecCalls' = <<>>
    /\ ecErr' = None
    /\ UNCHANGED <<sigVars, connected, authorized, source_entities, argVars,
                   source_names, dest_name, installed, listing, cbVars, lookups,
                   cfgVars, choice>>

\* lines 85-98: the dialogs are written to the output file, or the error is
\* logged
DialogsReturns(o) ==
    /\ pc = "await_dialogs"
    /\ IF o = Ok
       THEN connected /\ listing' = <<"written", ChatIds>>
       ELSE Answered(o) /\ UNCHANGED listing
    /\ pc' = "finally"
    /\ UNCHANGED <<sigVars, connected, authorized, source_entities, ecVars,
                   argVars, nameVars, installed, cbVars, lookups, cfgVars, choice>>

\* the chat whose name the loop of lines 121-125 asks for
NameChat == IF nameIdx <= Len(srcIds) THEN srcIds[nameIdx] ELSE destId

\* lines 122-126 once get_chat_name has returned
NameResolved(name) ==
    IF nameIdx <= Len(srcIds)
    THEN /\ source_names' = Put(source_names, NameChat, name)
         /\ nameIdx' = nameIdx + 1
         /\ pc' = "names"
         /\ UNCHANGED dest_name
    ELSE /\ dest_name' = name
         /\ pc' = "install"
         /\ UNCHANGED <<source_names, nameIdx>>

\* get_chat_name called by setup_message_handlers, lines 102-104 and 110-111
GetChatName ==
    /\ pc = "names"
    /\ IF NameChat \in DOMAIN source_entities
       THEN /\ NameResolved(NameOf(source_entities[NameChat], NameChat))
            /\ UNCHANGED lookups
       ELSE /\ lookups' = [lookups EXCEPT ![NameChat] = @ + 1]
            /\ pc' = "await_entity"
            /\ UNCHANGED nameVars
    /\ UNCHANGED <<sigVars, connected, authorized, source_entities, ecVars,
                   argVars, installed, listing, cbVars, cfgVars, choice>>

\* get_entity returned to get_chat_name, lines 104-111
EntityReturns(o) ==
    /\ pc = "await_entity"
    /\ IF o = Ok
       THEN /\ connected
            /\ source_entities' = Put(source_entities, NameChat, Entity(NameChat))
            /\ NameResolved(NameOf(Entity(NameChat), NameChat))
       ELSE /\ Answered(o)
            /\ NameResolved(ChatLabel(NameChat))
            /\ UNCHANGED source_entities
    /\ UNCHANGED <<sigVars, connected, authorized, ecVars, argVars, installed,
                   listing, cbVars, lookups, cfgVars, choice>>

\* a loop that does not read the flag
IdleLoopForever == "await_idle"

\* `while self.running: await asyncio.sleep(1)`, lines 162-163
IdleLoop == IF running THEN "await_idle" ELSE "finally"

\* lines 129-163: the callback is registered and the loop is entered
Install ==
    /\ pc = "install"
    /\ installed' = TRUE
    /\ pc' = IdleLoop
    /\ UNCHANGED <<sigVars, connected, authorized, source_entities, ecVars,
                   argVars, nameVars, listing, cbVars, lookups, cfgVars, choice>>

\* asyncio.sleep(1) is over and the flag is polled
IdleWakes ==
    /\ pc = "await_idle"
    /\ pc' = IdleLoop
    /\ UNCHANGED <<sigVars, connected, authorized, source_entities, ecVars,
                   argVars, nameVars, installed, listing, cbVars, lookups,
                   cfgVars, choice>>

\* a finally that ends main without the disconnect
FinallyNoDisconnect ==
    /\ pc = "finally"
    /\ pc' = "done"
    /\ UNCHANGED <<sigVars, connected, authorized, source_entities, ecVars, argVars,
                   nameVars, installed, listing, cbVars, lookups, cfgVars, choice>>

\* main's finally, lines 309-313
Finally ==
    /\ pc = "finally"
    /\ IF connected
       THEN connected' = FALSE /\ pc' = "await_disconnect"
       ELSE pc' = "done" /\ UNCHANGED connected
    /\ UNCHANGED <<sigVars, authorized, source_entities, ecVars, argVars,
                   nameVars, installed, listing, cbVars, lookups, cfgVars, choice>>

DisconnectReturns ==
    /\ pc = "await_disconnect"
    /\ pc' = "done"
    /\ UNCHANGED <<sigVars, connected, authorized, source_entities, ecVars,
                   argVars, nameVars, installed, listing, cbVars, lookups,
                   cfgVars, choice>>

(***************************************************************************)
(* new_message_handler, lines 130-156.  A task is made for each message    *)
(* the client delivers from a source chat; it runs when the main task and  *)
(* the other callbacks are suspended.                                      *)
(***************************************************************************)
Dispatch(chat, text) ==
    /\ MainSuspended
    /\ installed
    /\ connected
    /\ Len(tasks) < MaxMsgs
    /\ chat \in Range(srcIds)
    /\ tasks' = Append(tasks, [chat |-> chat, text |-> text, pc |-> "new"])
    /\ UNCHANGED <<sigVars, connected, authorized, source_entities, pc, ecVars,
                   argVars, nameVars, installed, listing, sendCalls, lookups,
                   cfgVars, choice>>

\* lines 136-152 up to the await of send_message
Relay(k) ==
    LET text == tasks[k].text
        match == IF Truthy(text) THEN ReSearch(text) ELSE None
    IN  IF match # None
        THEN /\ sendCalls' = Append(sendCalls,
                                    [msg |-> k, dest |-> destId,
                                     text |-> Group(text, match)])
             /\ tasks' = [tasks EXCEPT ![k].pc = "await_send"]
        ELSE /\ tasks' = [tasks EXCEPT ![k].pc = "done"]
             /\ UNCHANGED sendCalls

\* lines 133-134: get_chat_name(source_id) is called for every message
HandlerStart(k) ==
    /\ MainSuspended
    /\ k \in DOMAIN tasks
    /\ tasks[k].pc = "new"
    \* the event loop starts the tasks in the order they were created
    /\ \A j \in 1..(k - 1) : tasks[j].pc # "new"
    /\ IF tasks[k].chat \in DOMAIN source_entities
       THEN Relay(k) /\ UNCHANGED lookups
       ELSE /\ lookups' = [lookups EXCEPT ![tasks[k].chat] = @ + 1]
            /\ tasks' = [tasks EXCEPT ![k].pc = "await_entity"]
            /\ UNCHANGED sendCalls
    /\ UNCHANGED <<sigVars, connected, authorized, source_entities, pc, ecVars,
                   argVars, nameVars, installed, listing, cfgVars, choice>>

\* get_entity returned to the get_chat_name of a callback
HandlerEntityReturns(k, o) ==
    /\ MainSuspended
    /\ k \in DOMAIN tasks
    /\ tasks[k].pc = "await_entity"
    /\ IF o = Ok
       THEN /\ connected
            /\ source_entities' =
                   Put(source_entities, tasks[k].chat, Entity(tasks[k].chat))
       ELSE /\ Answered(o)
            /\ UNCHANGED source_entities
    /\ Relay(k)
    /\ UNCHANGED <<sigVars, connected, authorized, pc, ecVars, argVars,
                   nameVars, installed, listing, lookups, cfgVars, choice>>

\* an except clause that stops the forwarder when send_message raises
HandlerSendReturnsFatal(k, o) ==
    /\ MainSuspended
    /\ k \in DOMAIN tasks
    /\ tasks[k].pc = "await_send"
    /\ IF o = Ok
       THEN /\ connected
            /\ tasks' = [tasks EXCEPT ![k].pc = "done"]
            /\ UNCHANGED running
       ELSE /\ Answered(o)
            /\ tasks' = [tasks EXCEPT ![k].pc = "error"]
            /\ running' = FALSE
    /\ UNCHANGED <<discTasks, connected, authorized, source_entities, pc, ecVars,
                   argVars, nameVars, installed, listing, sendCalls, lookups,
                   cfgVars, choice>>

\* send_message returned (line 153) or raised (lines 155-156)
HandlerSendReturns(k, o) ==
    /\ MainSuspended
    /\ k \in DOMAIN tasks
    /\ tasks[k].pc = "await_send"
    /\ IF o = Ok
       THEN connected /\ tasks' = [tasks EXCEPT ![k].pc = "done"]
       ELSE Answered(o) /\ tasks' = [tasks EXCEPT ![k].pc = "error"]
    /\ UNCHANGED <<sigVars, connected, authorized, source_entities, pc, ecVars,
                   argVars, nameVars, installed, listing, sendCalls, lookups,
                   cfgVars, choice>>

(***************************************************************************)
(* ConfigManager calls made in any order.  Each records itself in cfgOp     *)
(* (its arguments, what it returned, whether it logged an error, whether   *)
(* it raised, the file it found), and the call before it in cfgPrev.       *)
(***************************************************************************)
Called(op, args, r) ==
    /\ cfgOp' = [op |-> op, args |-> args, ret |-> r.ret, err |-> r.err,
                 raised |-> r.raised, before |-> file]
    /\ cfgPrev' = [op |-> cfgOp.op, args |-> cfgOp.args, err |-> cfgOp.err,
                   before |-> cfgOp.before[1]]

DoLoadCredentials ==
    LET r == load_credentials(file)
    IN  /\ Called("load_credentials", <<>>, r)
        /\ UNCHANGED <<file, fileMode, osName>>

DoSaveCredentials(api_id, api_hash, phone_number, outcome) ==
    LET r == save_credentials(file, fileMode, osName, api_id, api_hash,
                              phone_number, outcome)
    IN  /\ outcome = "chmod_fails" => osName # "nt"
        /\ file' = r.file
        /\ fileMode' = r.mode
        /\ Called("save_credentials", <<api_id, api_hash, phone_number>>, r)
        /\ UNCHANGED osName

DoSaveChatConfig(ids, dest, now, outcome) ==
    LET r == save_chat_config(file, fileMode, ids, dest, now, outcome)
    IN  /\ file' = r.file
        /\ fileMode' = r.mode
        /\ Called("save_chat_config", <<ids, dest>>, r)
        /\ UNCHANGED osName

DoLoadChatConfig ==
    LET r == load_chat_config(file)
    IN  /\ Called("load_chat_config", <<>>, r)
        /\ UNCHANGED <<file, fileMode, osName>>

\* the values the calls are made with
Creds == {<<PyStr("1"), PyStr("h"), PyStr("+100")>>,
          <<PyStr("2"), PyStr("k"), PyStr("+200")>>}
IdLists == {<<>>, <<11, -100>>}
DestIds == {0, 99}
\* datetime.now().isoformat()
Times == {PyStr("2024-01-01T00:00:00"), PyStr("2024-01-02T00:00:00")}

CredsDict(c) ==
    [k \in {"api_id", "api_hash", "phone_number"} |->
        CASE k = "api_id" -> c[1] [] k = "api_hash" -> c[2]
          [] k = "phone_number" -> c[3]]

ChatDict(d, ids, dest, now) ==
    Put(Put(Put(d, "source_chat_ids", PyIntList(ids)),
            "destination_chat_id", PyInt(dest)), "last_updated", now)

OneCreds == <<PyStr("1"), PyStr("h"), PyStr("+100")>>
OneTime == PyStr("2024-01-01T00:00:00")

\* the files a run of the ConfigManager may find
InitFiles ==
    {Absent, Unreadable, Object(<<>>)}
    \cup {Object(DumpDict(CredsDict(c))) : c \in Creds}
    \cup {Object(DumpDict(ChatDict(CredsDict(OneCreds), ids, dest, OneTime))) :
            ids \in IdLists, dest \in DestIds}
    \cup {Object(DumpDict(ChatDict(<<>>, <<11, -100>>, 99, OneTime)))}

CallLoadCredentials ==
    /\ pc = "config"
    /\ DoLoadCredentials
    /\ UNCHANGED <<agentVars, choice>>

CallSaveCredentials ==
    /\ pc = "config"
    /\ \E c \in Creds, outcome \in WriteOutcomes \cup {"chmod_fails"} :
          DoSaveCredentials(c[1], c[2], c[3], outcome)
    /\ UNCHANGED <<agentVars, choice>>

CallSaveChatConfig ==
    /\ pc = "config"
    /\ \E ids \in IdLists, dest \in DestIds, now \in Times,
          outcome \in WriteOutcomes :
          DoSaveChatConfig(PyIntList(ids), PyInt(dest), now, outcome)
    /\ UNCHANGED <<agentVars, choice>>

CallLoadChatConfig ==
    /\ pc = "config"
    /\ DoLoadChatConfig
    /\ UNCHANGED <<agentVars, choice>>

(***************************************************************************)
(* main's menu, lines 263-306                                              *)
(***************************************************************************)
\* what is typed for choice 2: the chats to forward from and to
MenuInputs == {<<<<1>>, 3>>}

\* choice 1
MenuListChats ==
    /\ pc = "menu"
    /\ choice' = "1"
    /\ caller' = "list_chats"
    /\ pc' = "ec_enter"
    /\ UNCHANGED <<sigVars, connected, authorized, source_entities, ecVars,
                   srcIds, destId, nameVars, installed, listing, cbVars,
                   lookups, cfgVars>>

\* choice 2 with integers typed: lines 271-285
MenuForward ==
    /\ pc = "menu"
    /\ choice' = "2"
    /\ \E in \in MenuInputs, outcome \in WriteOutcomes :
          LET r == save_chat_config(file, fileMode, PyIntList(in[1]),
                                    PyInt(in[2]), OneTime, outcome)
          IN  /\ file' = r.file
              /\ fileMode' = r.mode
              /\ srcIds' = in[1]
              /\ destId' = in[2]
    /\ caller' = "setup"
    /\ pc' = "ec_enter"
    /\ UNCHANGED <<sigVars, connected, authorized, source_entities, ecVars,
                   nameVars, installed, listing, cbVars, lookups, osName,
                   cfgOp, cfgPrev>>

\* choice 2 and int() raises ValueError: lines 307-308
MenuForwardBadInput ==
    /\ pc = "menu"
    /\ choice' = "2"
    /\ pc' = "finally"
    /\ UNCHANGED <<sigVars, connected, authorized, source_entities, ecVars,
                   argVars, nameVars, installed, listing, cbVars, lookups,
                   cfgVars>>

\* a list of ints read from the file, as the integers
IntsOf(v) == [i \in 1..Len(v[2]) |-> v[2][i][2]]

\* choice 3: lines 289-298
MenuSaved ==
    /\ pc = "menu"
    /\ choice' = "3"
    /\ LET r == load_chat_config(file).ret
       IN  IF Falsy(r[1]) \/ Falsy(r[2])
           THEN pc' = "finally" /\ UNCHANGED argVars
           ELSE /\ srcIds' = IntsOf(r[1])
                /\ destId' = r[2][2]
                /\ caller' = "setup"
                /\ pc' = "ec_enter"
    /\ UNCHANGED <<sigVars, connected, authorized, source_entities, ecVars,
                   nameVars, installed, listing, cbVars, lookups, cfgVars>>

\* choice 4, and any other choice
MenuExit ==
    /\ pc = "menu"
    /\ \E c \in {"4", "other"} : choice' = c
    /\ pc' = "finally"
    /\ UNCHANGED <<sigVars, connected, authorized, source_entities, ecVars,
                   argVars, nameVars, installed, listing, cbVars, lookups,
                   cfgVars>>

(***************************************************************************)
(* The agent: main() from the menu on, with the forwarder constructed.     *)
(***************************************************************************)
\* what the callbacks are given in a run of the agent: a text with a token
SpecTexts == {Rep("a", TokenMin)}

\* the config file main() finds at the menu: credentials, with and without a
\* saved chat configuration
SpecFiles ==
    {Object(DumpDict(CredsDict(OneCreds))),
     Object(DumpDict(ChatDict(CredsDict(OneCreds), <<1>>, 3, OneTime)))}

\* the forwarder as __init__ leaves it, lines 24-38
Constructed ==
    /\ running = TRUE
    /\ connected = FALSE
    /\ source_entities = <<>>
    /\ caller = "none"
    /\ ecRet = "none"
    /\ slept = 0
    /\ ecCalls = <<>>
    /\ ecErr = None
    /\ srcIds = <<>>
    /\ destId = 0
    /\ nameIdx = 0
    /\ source_names = <<>>
    /\ dest_name = None
    /\ installed = FALSE
    /\ listing = <<"none">>
    /\ tasks = <<>>
    /\ sendCalls = <<>>
    /\ lookups = [c \in ChatIds |-> 0]
    /\ discTasks = 0
    /\ cfgOp = NoCall
    /\ cfgPrev = NoPrev
    /\ choice = "none"

Init ==
    /\ Constructed
    /\ authorized \in BOOLEAN
    /\ pc = "menu"
    /\ file \in SpecFiles
    /\ fileMode = "0600"
    /\ osName = "posix"

Outcomes == {Ok} \cup Raises

Next ==
    \/ Signal
    \/ DisconnectTask
    \/ MenuListChats
    \/ MenuForward
    \/ MenuForwardBadInput
    \/ MenuSaved
    \/ MenuExit
    \/ EnsureConnected
    \/ \E o \in Outcomes : ConnectReturns(o)
    \/ \E o \in Outcomes : IsAuthReturns(o)
    \/ \E o \in Outcomes : SendCodeReturns(o)
    \/ \E o \in Outcomes \cup {PasswordNeeded} : SignInReturns(o)
    \/ \E o \in Outcomes : SignInPwReturns(o)
    \/ SleepReturns
    \/ AfterEnsureConnected
    \/ \E o \in Outcomes : DialogsReturns(o)
    \/ GetChatName
    \/ \E o \in Outcomes : EntityReturns(o)
    \/ Install
    \/ IdleWakes
    \/ Finally
    \/ DisconnectReturns
    \/ \E chat \in ChatIds, text \in SpecTexts : Dispatch(chat, text)
    \/ \E k \in 1..MaxMsgs : HandlerStart(k)
    \/ \E k \in 1..MaxMsgs, o \in Outcomes : HandlerEntityReturns(k, o)
    \/ \E k \in 1..MaxMsgs, o \in Outcomes : HandlerSendReturns(k, o)

Spec == Init /\ [][Next]_vars

\* the event loop wakes the idle wait when its sleep is over
FairSpec == Spec /\ WF_vars(IdleWakes)

\* a step of the main task: the menu is answered, or the main task runs from
\* the call or await it is at to its next one
MainStep ==
    \/ MenuListChats
    \/ MenuForward
    \/ MenuForwardBadInput
    \/ MenuSaved
    \/ MenuExit
    \/ EnsureConnected
    \/ \E o \in Outcomes : ConnectReturns(o)
    \/ \E o \in Outcomes : IsAuthReturns(o)
    \/ \E o \in Outcomes : SendCodeReturns(o)
    \/ \E o \in Outcomes \cup {PasswordNeeded} : SignInReturns(o)
    \/ \E o \in Outcomes : SignInPwReturns(o)
    \/ SleepReturns
    \/ AfterEnsureConnected
    \/ \E o \in Outcomes : DialogsReturns(o)
    \/ GetChatName
    \/ \E o \in Outcomes : EntityReturns(o)
    \/ Install
    \/ IdleWakes
    \/ Finally
    \/ DisconnectReturns

\* the menu is answered, every call of the client that main awaits returns
\* or raises, and the event loop then runs the main task
FairMain == Spec /\ WF_vars(MainStep)

(***************************************************************************)
(* The callback on every text: the agent is listening, with the names of   *)
(* its chats resolved or not, and one message is delivered.                *)
(***************************************************************************)
Listening(resolved) ==
    /\ running = TRUE
    /\ connected = TRUE
    /\ authorized = TRUE
    /\ source_entities = [c \in resolved |-> Entity(c)]
    /\ caller = "setup"
    /\ slept = 0
    /\ ecRet = "none"
    /\ ecCalls = <<>>
    /\ ecErr = None
    /\ srcIds = <<1>>
    /\ destId = 3
    /\ nameIdx = 2
    /\ source_names = [c \in {1} |->
                         IF c \in resolved THEN NameOf(Entity(c), c)
                         ELSE ChatLabel(c)]
    /\ dest_name = IF 3 \in resolved THEN NameOf(Entity(3), 3) ELSE ChatLabel(3)
    /\ installed = TRUE
    /\ listing = <<"none">>
    /\ tasks = <<>>
    /\ sendCalls = <<>>
    /\ lookups = [c \in ChatIds |-> IF c \in {1, 3} THEN 1 ELSE 0]
    /\ discTasks = 0
    /\ pc = "await_idle"
    /\ choice = "3"

InitRelay ==
    /\ \E resolved \in {{}, {1, 3}} : Listening(resolved)
    /\ file = Object(DumpDict(ChatDict(CredsDict(OneCreds), <<1>>, 3, OneTime)))
    /\ fileMode = "0600"
    /\ osName = "posix"
    /\ cfgOp = NoCall
    /\ cfgPrev = NoPrev

NextRelay ==
    \/ \E chat \in ChatIds, text \in AllTexts :
          tasks = <<>> /\ Dispatch(chat, text)
    \/ \E k \in 1..MaxMsgs : HandlerStart(k)
    \/ \E k \in 1..MaxMsgs, o \in Outcomes : HandlerEntityReturns(k, o)
    \/ \E k \in 1..MaxMsgs, o \in Outcomes : HandlerSendReturns(k, o)

SpecRelay == InitRelay /\ [][NextRelay]_vars

(***************************************************************************)
(* main() when choice 3 is entered, on any config file: none, an           *)
(* unreadable one, credentials only, a source list without a destination,  *)
(* and saved configurations whose list is empty or not and whose           *)
(* destination is 0 or not.                                                *)
(***************************************************************************)
SavedFiles ==
    {Absent, Unreadable, Object(DumpDict(CredsDict(OneCreds))),
     Object(DumpDict(Put(CredsDict(OneCreds), "source_chat_ids",
                         PyIntList(<<1>>))))}
    \cup {Object(DumpDict(ChatDict(CredsDict(OneCreds), ids, dest, OneTime))) :
            ids \in {<<>>, <<1>>}, dest \in {0, 3}}

InitSaved ==
    /\ Constructed
    /\ authorized \in BOOLEAN
    /\ pc = "menu"
    /\ file \in SavedFiles
    /\ fileMode = "0600"
    /\ osName = "posix"

NextSaved ==
    \/ Signal
    \/ DisconnectTask
    \/ MenuSaved
    \/ EnsureConnected
    \/ \E o \in Outcomes : ConnectReturns(o)
    \/ \E o \in Outcomes : IsAuthReturns(o)
    \/ \E o \in Outcomes : SendCodeReturns(o)
    \/ \E o \in Outcomes \cup {PasswordNeeded} : SignInReturns(o)
    \/ \E o \in Outcomes : SignInPwReturns(o)
    \/ SleepReturns
    \/ AfterEnsureConnected
    \/ GetChatName
    \/ \E o \in Outcomes : EntityReturns(o)
    \/ Install
    \/ IdleWakes
    \/ Finally
    \/ DisconnectReturns
    \/ \E chat \in ChatIds, text \in SpecTexts : Dispatch(chat, text)
    \/ \E k \in 1..MaxMsgs : HandlerStart(k)
    \/ \E k \in 1..MaxMsgs, o \in Outcomes : HandlerEntityReturns(k, o)
    \/ \E k \in 1..MaxMsgs, o \in Outcomes : HandlerSendReturns(k, o)

SpecSaved == InitSaved /\ [][NextSaved]_vars

(***************************************************************************)
(* One call of ensure_connected, on a client in any state: connected or    *)
(* not, logged in or not; signals may arrive during the call.              *)
(***************************************************************************)
InitEnsure ==
    /\ running = TRUE
    /\ connected \in BOOLEAN
    /\ authorized \in BOOLEAN
    /\ source_entities = <<>>
    /\ \E op \in {"list_chats", "setup"} :
          /\ caller = op
          /\ choice = IF op = "list_chats" THEN "1" ELSE "2"
          /\ srcIds = IF op = "list_chats" THEN <<>> ELSE <<1>>
          /\ destId = IF op = "list_chats" THEN 0 ELSE 3
    /\ ecRet = "none"
    /\ slept = 0
    /\ ecCalls = <<>>
    /\ ecErr = None
    /\ nameIdx = 0
    /\ source_names = <<>>
    /\ dest_name = None
    /\ installed = FALSE
    /\ listing = <<"none">>
    /\ tasks = <<>>
    /\ sendCalls = <<>>
    /\ lookups = [c \in ChatIds |-> 0]
    /\ discTasks = 0
    /\ pc = "ec_enter"
    /\ file = Object(DumpDict(CredsDict(OneCreds)))
    /\ fileMode = "0600"
    /\ osName = "posix"
    /\ cfgOp = NoCall
    /\ cfgPrev = NoPrev

NextEnsure ==
    \/ Signal
    \/ DisconnectTask
    \/ EnsureConnected
    \/ \E o \in Outcomes : ConnectReturns(o)
    \/ \E o \in Outcomes : IsAuthReturns(o)
    \/ \E o \in Outcomes : SendCodeReturns(o)
    \/ \E o \in Outcomes \cup {PasswordNeeded} : SignInReturns(o)
    \/ \E o \in Outcomes : SignInPwReturns(o)
    \/ SleepReturns

SpecEnsure == InitEnsure /\ [][NextEnsure]_vars

(***************************************************************************)
(* The ConfigManager on its own: any file, any order of calls.             *)
(***************************************************************************)
InitConfig ==
    /\ Constructed
    /\ authorized = FALSE
    /\ pc = "config"
    /\ file \in InitFiles
    /\ fileMode = "default"
    /\ osName \in {"posix", "nt"}

NextConfig ==
    \/ CallLoadCredentials
    \/ CallSaveCredentials
    \/ CallSaveChatConfig
    \/ CallLoadChatConfig

SpecConfig == InitConfig /\ [][NextConfig]_vars

(***************************************************************************)
(* The claims about the token pattern and the callback (SpecRelay).        *)
(***************************************************************************)
\* t[i..i+n-1] is a run of exactly 43 or 44 characters of [a-zA-Z0-9] with a
\* word boundary on each side
Qualifies(t, i, n) ==
    /\ n \in {43, 44}
    /\ i >= 1
    /\ i + n - 1 <= Len(t)
    /\ i = 1 \/ t[i - 1] \notin {"a", "b", "_"}
    /\ i + n - 1 = Len(t) \/ t[i + n] \notin {"a", "b", "_"}
    /\ \A j \in i..(i + n - 1) : t[j] \in {"a", "b"}

HasToken(t) ==
    t # None /\ \E i \in 1..Len(t), n \in {43, 44} : Qualifies(t, i, n)

\* the callback of message k has run up to its send_message or to its end
Relayed(k) == k \in DOMAIN tasks /\ tasks[k].pc \in {"await_send", "done", "error"}

SendsOf(k) == {c \in DOMAIN sendCalls : sendCalls[c].msg = k}

\* C1: once the callback has run on a text holding a run of exactly 43 or 44
\* alphanumeric characters between word boundaries, it has made one
\* send_message call, to the destination, and whatever it sends is such a run
\* of the text, character for character; so nothing of 42 or fewer or of 45 or
\* more characters is ever sent.
C1_SendsTheRun ==
    /\ \A k \in DOMAIN tasks :
          (Relayed(k) /\ HasToken(tasks[k].text)) =>
              /\ Cardinality(SendsOf(k)) = 1
              /\ \A c \in SendsOf(k) : sendCalls[c].dest = destId
    /\ \A c \in DOMAIN sendCalls :
          LET t == tasks[sendCalls[c].msg].text
          IN  /\ t # None
              /\ \E i \in 1..Len(t), n \in {43, 44} :
                    /\ Qualifies(t, i, n)
                    /\ sendCalls[c].text = SubSeq(t, i, i + n - 1)

\* a 44-character token sent out of a text that has more around it
C1_Witness ==
    \E c \in DOMAIN sendCalls :
        LET t == tasks[sendCalls[c].msg].text
        IN  /\ Len(sendCalls[c].text) = 44
            /\ Len(t) = 46
            /\ t[1] = " "
            /\ t[46] = " "

\* the leftmost position at which a qualifying run starts
FirstToken(t) ==
    CHOOSE i \in 1..Len(t) :
        /\ \E n \in {43, 44} : Qualifies(t, i, n)
        /\ \A j \in 1..(i - 1) : \A n \in {43, 44} : ~Qualifies(t, j, n)

\* C2: a callback makes at most one send_message call for its message, and
\* when the text holds qualifying runs the text sent is the leftmost of them.
C2_FirstOnly ==
    \A k \in DOMAIN tasks :
        /\ Cardinality(SendsOf(k)) <= 1
        /\ \A c \in SendsOf(k) :
              LET t == tasks[k].text
                  i == FirstToken(t)
              IN  /\ HasToken(t)
                  /\ sendCalls[c].text = SubSeq(t, i, i + Len(sendCalls[c].text) - 1)

\* two tokens in one text, the second unlike the first, and the first sent
C2_Witness ==
    \E k \in DOMAIN tasks :
        /\ tasks[k].text = Rep("a", 43) \o <<" ">> \o Rep("b", 43)
        /\ tasks[k].pc = "done"
        /\ \E c \in SendsOf(k) : sendCalls[c].text = Rep("a", 43)

\* C3: a callback whose message has no text, an empty text or a text without a
\* qualifying run makes no send_message call.
C3_NoTokenNoSend ==
    \A k \in DOMAIN tasks :
        (tasks[k].text = None \/ ~HasToken(tasks[k].text)) => SendsOf(k) = {}

\* a callback that ended on a run of 45 and one that ended on no text:
\* nothing sent
C3_Witness ==
    /\ sendCalls = <<>>
    /\ \E k \in DOMAIN tasks :
          /\ tasks[k].pc = "done"
          /\ tasks[k].text \in {Rep("a", 45), Rep("a", 42) \o <<"_">>}

(***************************************************************************)
(* The claims about the agent (Spec, FairSpec).                            *)
(***************************************************************************)
\* C4: once signal_handler has set the running flag false, no callback calls
\* send_message any more.
C4_NoSendAfterShutdown == [][~running => sendCalls' = sendCalls]_vars

\* C5: a signal leaves the running flag false; the idle loop is left only
\* with the flag false, and to return; and once the flag is false the loop
\* is left at its next poll, so setup_message_handlers returns.
C5_ShutdownReturns ==
    /\ [][Signal => ~running']_vars
    /\ [][(pc = "await_idle" /\ pc' # "await_idle") =>
              (~running /\ pc' = "finally")]_vars
    /\ (pc = "await_idle" /\ ~running) ~> (pc = "finally")

\* the loop was left after a signal that came while messages were delivered
C5_Witness ==
    /\ pc = "finally"
    /\ ~running
    /\ installed
    /\ tasks # <<>>

\* C6: get_entity is called at most once for a chat id in a run of the
\* process.
C6_OneLookupPerChat == \A c \in ChatIds : lookups[c] <= 1

\* C10: ensure_connected returns True or False and no exception leaves it; it
\* returns True only on a connected and authorized client; after a
\* FloodWaitError it sleeps the seconds the error carries, after any other
\* exception 5 seconds, and then returns False.
C10_EnsureConnected ==
    /\ pc = "ec_return" => ecRet \in {"True", "False"}
    /\ pc # "ec_return" => ecRet = "none"
    /\ ecRet = "True" => (connected /\ authorized /\ ecErr = None /\ slept = 0)
    /\ ecRet = "False" => ecErr # None
    /\ ecErr # None =>
          /\ pc \in {"await_sleep", "ec_return"}
          /\ pc = "ec_return" => ecRet = "False"
          /\ ecErr[1] = "flood" => slept = ecErr[2]
          /\ ecErr[1] # "flood" => slept = 5

\* False returned after the password sign-in was answered by a flood wait of
\* 30 seconds
C10_Witness ==
    /\ pc = "ec_return"
    /\ ecRet = "False"
    /\ ecErr = <<"flood", 30>>
    /\ slept = 30
    /\ ecCalls[Len(ecCalls)] = "sign_in_password"

(***************************************************************************)
(* The claims about the ConfigManager (SpecConfig).                        *)
(***************************************************************************)
SavedThenLoaded ==
    cfgOp.op = "load_chat_config" /\ cfgPrev.op = "save_chat_config"

\* C7 as stated: load_chat_config right after save_chat_config(ids, dest)
\* returns (ids, dest), whatever the file held before.
C7_SaveThenLoad == SavedThenLoaded => cfgOp.ret = cfgPrev.args

\* C7 as amended: it returns (ids, dest) when save_chat_config logged no
\* error, which it does not on a missing file or on a file that holds a JSON
\* object unless the write fails; on an unreadable file save_chat_config logs
\* an error and load_chat_config returns (None, None).
C7_SaveThenLoadWritten ==
    SavedThenLoaded =>
        /\ ~cfgPrev.err => cfgOp.ret = cfgPrev.args
        /\ cfgPrev.before = "unreadable" =>
              (cfgPrev.err /\ cfgOp.ret = <<None, None>>)

\* the pair read back from a file that held credentials only
C7_Witness ==
    /\ SavedThenLoaded
    /\ ~cfgPrev.err
    /\ cfgPrev.before = "object"
    /\ cfgOp.ret = <<PyIntList(<<11, -100>>), PyInt(99)>>
    /\ load_credentials(file).ret = OneCreds

HoldsCredentials(f) ==
    /\ IsObject(f)
    /\ {"api_id", "api_hash", "phone_number"} \subseteq DOMAIN f[2]

\* C8 as stated: after save_chat_config on a file that holds the three
\* credentials, load_credentials returns what it returned before and the chat
\* fields are the values passed.
C8_CredentialsKept ==
    (cfgOp.op = "save_chat_config" /\ HoldsCredentials(cfgOp.before)) =>
        /\ load_credentials(file).ret = load_credentials(cfgOp.before).ret
        /\ load_chat_config(file).ret = cfgOp.args

\* C8 as amended: that holds when save_chat_config logged no error; when its
\* write failed the file is as it was, or is left unreadable.
C8_CredentialsKeptWritten ==
    (cfgOp.op = "save_chat_config" /\ HoldsCredentials(cfgOp.before)) =>
        /\ ~cfgOp.err =>
              /\ load_credentials(file).ret = load_credentials(cfgOp.before).ret
              /\ load_chat_config(file).ret = cfgOp.args
        /\ cfgOp.err => file \in {cfgOp.before, Unreadable}

\* the spec's scenario, with other values: credentials kept, an earlier chat
\* configuration replaced
C8_Witness ==
    /\ cfgOp.op = "save_chat_config"
    /\ ~cfgOp.err
    /\ load_chat_config(cfgOp.before).ret = <<PyIntList(<<>>), PyInt(0)>>
    /\ load_chat_config(file).ret = <<PyIntList(<<11, -100>>), PyInt(99)>>
    /\ load_credentials(file).ret = OneCreds

\* C9: no ConfigManager call lets an exception out; load_credentials returns
\* three None on a missing or unreadable file; load_chat_config returns None
\* for a key that is missing and (None, None) on a missing or unreadable file;
\* a save that fails returns None after logging.
C9_NothingRaised ==
    /\ ~cfgOp.raised
    /\ (cfgOp.op = "load_credentials" /\ ~IsObject(cfgOp.before)) =>
          cfgOp.ret = <<None, None, None>>
    /\ cfgOp.op = "load_chat_config" =>
          /\ ~IsObject(cfgOp.before) => cfgOp.ret = <<None, None>>
          /\ \A i \in 1..2 :
                (/\ IsObject(cfgOp.before)
                 /\ <<"source_chat_ids", "destination_chat_id">>[i]
                        \notin DOMAIN cfgOp.before[2])
                => cfgOp.ret[i] = None
    /\ cfgOp.op \in {"save_credentials", "save_chat_config"} => cfgOp.ret = None
    /\ (cfgOp.err /\ cfgOp.op \in {"load_credentials", "load_chat_config"}) =>
          cfgOp.before = Unreadable

\* load_credentials on an unreadable file, right after a save_credentials
\* that failed
C9_Witness ==
    /\ cfgOp.op = "load_credentials"
    /\ cfgOp.before = Unreadable
    /\ cfgOp.err
    /\ cfgOp.ret = <<None, None, None>>
    /\ cfgPrev.op = "save_credentials"
    /\ cfgPrev.err

(***************************************************************************)
(* The claims about the operations around ensure_connected (Spec).         *)
(***************************************************************************)
\* C11: when ensure_connected has returned False, the operation that called
\* it (list_chats, setup_message_handlers) calls it again.
C11_RetriesAfterFailure ==
    [][(pc = "ec_return" /\ ecRet = "False" /\ pc' # pc) => pc' = "ec_enter"]_vars

\* C12: an exception in the callback of one message ends in that callback:
\* the step on which a callback ends in its except clause leaves the main
\* task where it is, the handler registered, the running flag and the
\* connection as they are, and the other callbacks as they are; and every
\* callback that has run on a text with a token has made its send_message
\* call, whatever failed in its own name lookup or in other callbacks.
C12_ErrorIsolated ==
    /\ [][\A k \in DOMAIN tasks :
            (tasks[k].pc # "error" /\ tasks'[k].pc = "error") =>
                /\ pc' = pc
                /\ installed' = installed
                /\ running' = running
                /\ connected' = connected
                /\ sendCalls' = sendCalls
                /\ \A j \in DOMAIN tasks : j # k => tasks'[j] = tasks[j]]_vars
    /\ [](\A k \in DOMAIN tasks :
            (Relayed(k) /\ HasToken(tasks[k].text)) =>
                Cardinality(SendsOf(k)) = 1)

\* send_message raised for the first message, and the second, delivered
\* after that, was forwarded while the loop still waits
C12_Witness ==
    /\ Len(tasks) = 2
    /\ tasks[1].pc = "error"
    /\ tasks[2].pc = "done"
    /\ SendsOf(2) # {}
    /\ pc = "await_idle"
    /\ running
    /\ installed

\* the name setup_message_handlers has just been given for NameChat
NameGiven == IF nameIdx <= Len(srcIds) THEN source_names'[NameChat] ELSE dest_name'

\* get_chat_name has returned to setup_message_handlers on this step
NameReturned ==
    /\ pc \in {"names", "await_entity"}
    /\ pc' \in {"names", "install"}
    /\ nameIdx' # nameIdx \/ pc' = "install"

\* C13: get_chat_name returns to its caller whatever get_entity did, and what
\* it returns is the title of the chat when the entity is there (cached, or
\* just looked up) and has a title, and "Chat <id>" when the lookup failed or
\* the entity has no title.
C13_AlwaysAName ==
    /\ [][pc = "await_entity" => pc' \in {"await_entity", "names", "install"}]_vars
    /\ [][NameReturned =>
            NameGiven =
                IF NameChat \in DOMAIN source_entities' /\ NameChat \notin UserChats
                THEN <<"title", NameChat>>
                ELSE <<"Chat", NameChat>>]_vars

\* a source chat named by its title, and a destination that was looked up
\* and has no title
C13_Witness ==
    /\ pc = "install"
    /\ source_names = [c \in {1} |-> <<"title", 1>>]
    /\ 3 \in DOMAIN source_entities
    /\ dest_name = <<"Chat", 3>>

\* C14: setup_message_handlers resolves names, registers the handler and
\* waits only after its ensure_connected returned True, so on an authorized
\* client; when ensure_connected returned False it returns at once: no name
\* is looked up, no handler is registered, and no message is delivered to a
\* callback or sent.
C14_ListeningOnlyAuthorized ==
    /\ []((installed \/ pc \in {"names", "install", "await_idle"}) =>
            (authorized /\ caller = "setup"))
    /\ [](~installed => (tasks = <<>> /\ sendCalls = <<>>))
    /\ []((pc \in {"finally", "await_disconnect", "done"}
             /\ caller = "setup" /\ ~installed) =>
            /\ source_names = <<>>
            /\ dest_name = None
            /\ \A c \in ChatIds : lookups[c] = 0)
    /\ [][(pc' = "names" /\ pc \notin {"names", "await_entity"}) =>
            (pc = "ec_return" /\ ecRet = "True" /\ caller = "setup")]_vars
    /\ [][(pc = "ec_return" /\ ecRet = "False" /\ caller = "setup" /\ pc' # pc) =>
            (pc' = "finally" /\ ~installed')]_vars

\* main has ended after choice 2 on an account that was not logged in and
\* whose ensure_connected failed
C14_Witness ==
    /\ pc = "done"
    /\ caller = "setup"
    /\ choice = "2"
    /\ ~installed
    /\ ~authorized
    /\ sendCalls = <<>>

\* C15: the running flag is True when the forwarder is constructed; only a
\* step of signal_handler changes it; and once it is False it stays False.
C15_RunningMonotone ==
    /\ running = TRUE
    /\ [][running' # running => Signal]_vars
    /\ [][~running => ~running']_vars

\* the flag is still False at the end of a run of main in which the
\* forwarder listened and a message was delivered
C15_Witness ==
    /\ running = FALSE
    /\ pc = "done"
    /\ installed
    /\ tasks # <<>>
    /\ choice = "3"

\* C16: the send_message calls for messages of one source chat are made in
\* the order in which the messages were delivered.
C16_SendsInDeliveryOrder ==
    \A i, j \in DOMAIN sendCalls :
        (/\ i < j
         /\ tasks[sendCalls[i].msg].chat = tasks[sendCalls[j].msg].chat)
        => sendCalls[i].msg < sendCalls[j].msg

(***************************************************************************)
(* The claims about main's dispatch and cleanup (Spec, FairMain).          *)
(***************************************************************************)
\* C17: main ends only through its finally clause, and when it has ended
\* the client is not connected; from the menu main gets to its end on every
\* path (any choice, a choice 3 without saved configuration, a chat id that
\* is not an integer, an operation that fails), except while it waits in the
\* idle loop with the running flag True; and once the flag is False it gets
\* to its end from there too.
C17_AlwaysCleansUp ==
    /\ [][(pc' = "done" /\ pc # "done") =>
            pc \in {"finally", "await_disconnect"}]_vars
    /\ [](pc = "done" => ~connected)
    /\ (pc = "menu") ~> (pc = "done" \/ (pc = "await_idle" /\ running))
    /\ (~running) ~> (pc = "done")

\* main has ended after the client had connected and a token was relayed
C17_Witness ==
    /\ pc = "done"
    /\ ~connected
    /\ sendCalls # <<>>
    /\ choice = "2"

(***************************************************************************)
(* The claim about the calls of one ensure_connected (SpecEnsure).         *)
(***************************************************************************)
\* the call ensure_connected makes on this step, when it makes one
CallMade == ecCalls'[Len(ecCalls')]

\* the calls of ensure_connected are made in the order of lines 50-61:
\* connect first and only on a client that is not connected, the
\* authorization check on a connected client, send_code_request once, after
\* the check and only when the client is not authorized, the code sign_in
\* right after it, the password sign_in right after the code sign_in
CallsInOrder ==
    [][Len(ecCalls') > Len(ecCalls) =>
         /\ ecCalls' = Append(ecCalls, CallMade)
         /\ CallMade = "connect" => (~connected /\ ecCalls = <<>>)
         /\ CallMade = "is_user_authorized" =>
               \/ ecCalls = <<>> /\ connected
               \/ ecCalls = <<"connect">> /\ connected'
         /\ CallMade = "send_code_request" =>
               /\ ~authorized
               /\ ecCalls[Len(ecCalls)] = "is_user_authorized"
         /\ CallMade = "sign_in_code" =>
               ecCalls[Len(ecCalls)] = "send_code_request"
         /\ CallMade = "sign_in_password" =>
               ecCalls[Len(ecCalls)] = "sign_in_code"
         /\ CallMade \in {"connect", "is_user_authorized", "send_code_request",
                          "sign_in_code", "sign_in_password"}]_vars

\* the client was connected and authorized when ensure_connected was called,
\* and the call has returned
ReturnedOnReadyClient ==
    /\ pc = "ec_return"
    /\ ecCalls[1] = "is_user_authorized"
    /\ authorized
    /\ "send_code_request" \notin Range(ecCalls)

Configured(r) ==
    /\ r[1] # None
    /\ r[1] # PyIntList(<<>>)
    /\ r[2] # None
    /\ r[2] # PyInt(0)

\* C19: after choice 3, when load_chat_config did not return a configured
\* pair main goes to its end: nothing is connected, no client call is made,
\* no handler is registered, no message is delivered or sent; when it did,
\* setup_message_handlers is given the saved source ids and destination id,
\* the callbacks run on messages of those chats only and send to that
\* destination only.
C19_SavedOnlyIfConfigured ==
    choice = "3" =>
        LET r == load_chat_config(file).ret
        IN  IF ~Configured(r)
            THEN /\ pc \in {"finally", "done"}
                 /\ ~connected
                 /\ ecCalls = <<>>
                 /\ caller = "none"
                 /\ ~installed
                 /\ tasks = <<>>
                 /\ sendCalls = <<>>
                 /\ \A c \in ChatIds : lookups[c] = 0
            ELSE /\ PyIntList(srcIds) = r[1]
                 /\ PyInt(destId) = r[2]
                 /\ caller = "setup"
                 /\ \A k \in DOMAIN tasks : tasks[k].chat \in Range(srcIds)
                 /\ \A c \in DOMAIN sendCalls : PyInt(sendCalls[c].dest) = r[2]

\* choice 3 on a file whose saved source list is empty and whose destination
\* is set: main has ended without calling the client
C19_Witness ==
    /\ choice = "3"
    /\ pc = "done"
    /\ load_chat_config(file).ret = <<PyIntList(<<>>), PyInt(3)>>
    /\ ~installed

(***************************************************************************)
(* The claim about the two saves in either order (SpecConfig).             *)
(***************************************************************************)
CredsAfterChat ==
    cfgOp.op = "save_credentials" /\ cfgPrev.op = "save_chat_config"

ChatAfterCreds ==
    cfgOp.op = "save_chat_config" /\ cfgPrev.op = "save_credentials"

\* the file holds the three credential fields and nothing else
CredentialsOnly(f) ==
    IsObject(f) /\ DOMAIN f[2] = {"api_id", "api_hash", "phone_number"}

\* C20 as stated: after save_chat_config and then save_credentials the file
\* holds the three credentials only and load_chat_config returns
\* (None, None); after save_credentials and then save_chat_config both
\* loads return what was saved.
C20_CredentialsReplaceAll ==
    /\ CredsAfterChat =>
          /\ CredentialsOnly(file)
          /\ load_chat_config(file).ret = <<None, None>>
    /\ ChatAfterCreds =>
          /\ load_credentials(file).ret = cfgPrev.args
          /\ load_chat_config(file).ret = cfgOp.args

\* C20 as amended: the first holds when save_credentials logged no error,
\* the second when neither save logged an error.
C20_CredentialsReplaceAllWritten ==
    /\ (CredsAfterChat /\ ~cfgOp.err) =>
          /\ CredentialsOnly(file)
          /\ load_credentials(file).ret = cfgOp.args
          /\ load_chat_config(file).ret = <<None, None>>
    /\ (ChatAfterCreds /\ ~cfgOp.err /\ ~cfgPrev.err) =>
          /\ load_credentials(file).ret = cfgPrev.args
          /\ load_chat_config(file).ret = cfgOp.args

\* a chat configuration that was saved and is gone after save_credentials
C20_Witness ==
    /\ CredsAfterChat
    /\ ~cfgOp.err
    /\ ~cfgPrev.err
    /\ cfgPrev.args = <<PyIntList(<<11, -100>>), PyInt(99)>>
    /\ load_chat_config(cfgOp.before).ret = cfgPrev.args
    /\ load_chat_config(file).ret = <<None, None>>

=============================================================================
